---- MODULE Spec2Model ----
(***************************************************************************)
(* The CKAN mixin of tools-open-data (src/src/mixins/ckan.js, both         *)
(* variants held in that file) as a state machine.  A run is one           *)
(* migration or one deletion: a single thread of control that calls the    *)
(* mixin's methods; every axios call is a request added to `calls`, and    *)
(* its response arrives in a later step.                                   *)
(***************************************************************************)
EXTENDS Integers, Sequences, FiniteSets, TLC

\* Bounds of the model.
MaxRes == 2     \* resources of the source dataset / of the dataset to delete
MaxFail == 1    \* remote calls that fail in one run

\* `undefined` for an id or a url (a deleted or missing property).
NoId == 0

Names == {"a", "b"}
UrlTypes == {"link", "upload"}

\* The owner_org createDataset writes over the context's organization id.
HardcodedOrg == "e1d223a3-f1bd-4933-b49e-24786cee2af3"

VARIABLES
  kind,     \* the run: "v1" / "v2" migration, "deleteV1" / "deleteV2" deletion
  source,   \* the source catalog: its resources and their tables (never written)
  local,    \* the source context held by the client: dataset and resource objects
  remote,   \* the destination context held by the client
  server,   \* the destination catalog: dataset, resources, tables, next fresh id
  calls,    \* every request issued so far, in order, with its status
  ops,      \* every method call made so far, in order, with its outcome
  cur,      \* the frame of the method the caller is awaiting (or Idle)
  drv       \* the caller's position in the run

vars == <<kind, source, local, remote, server, calls, ops, cur, drv>>

----------------------------------------------------------------------------
\* Requests

buildEndpoint(context, endpoint) ==
  [to |-> context.url.origin, action |-> endpoint]

BlankReq ==
  [op |-> 0, to |-> "", action |-> "", method |-> "", auth |-> "none",
   id |-> NoId, resource_id |-> NoId, package_id |-> NoId, url |-> NoId,
   name |-> "", owner_org |-> "", private |-> "unset", upload |-> FALSE,
   limit |-> 0, fields |-> <<>>, records |-> <<>>, hasResource |-> FALSE,
   status |-> "inflight"]

Idle ==
  [name |-> "none", step |-> "none", op |-> 0, await |-> 0, res |-> 0,
   resourceID |-> NoId, remoteResource |-> <<>>, fields |-> <<>>,
   total |-> 0, records |-> <<>>, idx |-> 0]

IsWrite(r) ==
  r.action \in {"package_create", "package_update", "package_patch",
                "package_delete", "resource_create", "resource_update",
                "resource_delete", "datastore_create", "datastore_delete"}

\* A request ends "ok", "failed" (the call did not get through) or "refused"
\* (the catalog answered with an error); axios rejects on the last two.
Failed(r) == r.status \in {"failed", "refused"}

\* Throws with the error of a failed request dropped.
Throws_Swallowed(st) == FALSE

\* `await` on a request that did not end "ok" throws: the rest of the async
\* method does not run and its promise rejects (lines 277, 289, 357, 416, 421).
Throws(st) == st # "ok"

Failures == Cardinality({k \in DOMAIN calls : calls[k].status = "failed"})

Answered(k, st) == [calls EXCEPT ![k].status = st]

SetOutcome(o, out) == [ops EXCEPT ![o].outcome = out]

\* Array.prototype.filter: the elements of s at the positions in keep, in order.
SeqFilter(s, keep) ==
  LET F[i \in 0..Len(s)] ==
        IF i = 0 THEN <<>>
        ELSE IF i \in keep THEN Append(F[i - 1], s[i]) ELSE F[i - 1]
  IN F[Len(s)]

----------------------------------------------------------------------------
\* The remote catalogs

ServerIds(srv) == {srv.resources[i].id : i \in DOMAIN srv.resources}

TabularIds(srv) ==
  {srv.resources[i].id : i \in {j \in DOMAIN srv.resources : srv.resources[j].table}}

SourceTabularIds ==
  {source.resources[i].id :
     i \in {j \in DOMAIN source.resources : source.resources[j].datastore_active}}

\* Whether the catalog a request is addressed to can carry it out.
Accepts(r) ==
  CASE r.to = "file" -> r.url # NoId
    [] r.to = "src" -> r.action = "datastore_search" /\ r.resource_id \in SourceTabularIds
    [] r.action = "package_create" -> ~server.dataset.exists
    [] r.action \in {"package_update", "package_patch", "package_delete"} ->
         server.dataset.exists /\ r.id = server.dataset.id
    [] r.action = "resource_create" ->
         server.dataset.exists /\ r.package_id = server.dataset.id
    [] r.action \in {"resource_update", "resource_delete"} -> r.id \in ServerIds(server)
    [] r.action = "datastore_create" ->
         IF r.hasResource
         THEN server.dataset.exists /\ r.package_id = server.dataset.id
         ELSE r.resource_id \in ServerIds(server)
    [] r.action = "datastore_delete" -> r.resource_id \in TabularIds(server)
    [] OTHER -> FALSE

NewResource(srv, name, table, rows) ==
  [srv EXCEPT !.resources = Append(@, [id |-> srv.nextId, name |-> name,
                                       table |-> table, rows |-> rows]),
              !.nextId = @ + 1]

SetTable(srv, rid, table, rows) ==
  [srv EXCEPT !.resources =
     [i \in DOMAIN @ |-> IF @[i].id = rid
                         THEN [@[i] EXCEPT !.table = table, !.rows = rows]
                         ELSE @[i]]]

\* The destination catalog after carrying out an accepted request.
ServerApply(srv, r) ==
  CASE r.to # "dst" -> srv
    [] r.action = "package_create" ->
         [srv EXCEPT !.dataset = [exists |-> TRUE, id |-> srv.nextId,
                                  private |-> (r.private = "true"),
                                  owner_org |-> r.owner_org],
                     !.nextId = @ + 1]
    [] r.action = "package_update" ->
         [srv EXCEPT !.dataset.owner_org = r.owner_org,
                     !.dataset.private =
                        IF r.private = "unset" THEN @ ELSE r.private = "true"]
    [] r.action = "package_patch" ->
         [srv EXCEPT !.dataset.private =
                        IF r.private = "unset" THEN @ ELSE r.private = "true"]
    [] r.action = "package_delete" -> [srv EXCEPT !.dataset.exists = FALSE]
    [] r.action = "resource_create" -> NewResource(srv, r.name, FALSE, 0)
    [] r.action = "resource_delete" ->
         [srv EXCEPT !.resources = SeqFilter(@, {i \in DOMAIN srv.resources : srv.resources[i].id # r.id})]
    [] r.action = "datastore_create" ->
         IF r.hasResource
         THEN NewResource(srv, r.name, TRUE, Len(r.records))
         ELSE SetTable(srv, r.resource_id, TRUE, Len(r.records))
    [] r.action = "datastore_delete" -> SetTable(srv, r.resource_id, FALSE, 0)
    [] OTHER -> srv

\* datastore_search on the source: the field descriptors, the row count and
\* the first `limit` rows of the table of resource rid.
SearchResult(rid, limit) ==
  LET t == source.tables[rid]
      n == IF limit < Len(t.records) THEN limit ELSE Len(t.records)
  IN [fields |-> t.fields, total |-> Len(t.records), records |-> SubSeq(t.records, 1, n)]

\* The ways request k can end in the current state.
Outcomes(k) ==
  (IF Accepts(calls[k]) THEN {"ok"} ELSE {"refused"})
    \cup (IF Failures < MaxFail THEN {"failed"} ELSE {})

Effect(k, st) == IF st = "ok" THEN ServerApply(server, calls[k]) ELSE server

\* Between two iterations of a loop that awaits no request only microtasks
\* run: no response is delivered before the loop has run to its next request.
Running == cur.step = "loop"

----------------------------------------------------------------------------
\* Deletion, first variant (lines 143-161)

ResourceDeleteV1(context, o, i) ==
  [BlankReq EXCEPT !.op = o, !.to = buildEndpoint(context, "resource_delete").to,
                   !.action = "resource_delete", !.method = "get",
                   !.id = context.resources[i].id]

PackageDeleteV1(context, o) ==
  [BlankReq EXCEPT !.op = o, !.to = buildEndpoint(context, "package_delete").to,
                   !.action = "package_delete", !.method = "get",
                   !.id = context.package.id]

deleteDataset_v1 ==
  /\ kind = "deleteV1" /\ drv.phase = "start" /\ cur = Idle
  /\ LET o == Len(ops) + 1
         first == IF Len(remote.resources) > 0
                  THEN ResourceDeleteV1(remote, o, 1)
                  ELSE PackageDeleteV1(remote, o)
     IN /\ ops' = Append(ops, [name |-> "deleteDataset", res |-> 0, outcome |-> "pending"])
        /\ calls' = Append(calls, first)
        /\ cur' = [Idle EXCEPT !.name = "deleteDataset_v1", !.op = o,
                                !.await = Len(calls) + 1, !.idx = 1,
                                !.step = IF Len(remote.resources) > 0
                                         THEN "resource" ELSE "package"]
  /\ drv' = [drv EXCEPT !.phase = "running"]
  /\ UNCHANGED <<kind, source, local, remote, server>>

\* The response to an awaited resource_delete: the loop goes on, or the
\* rejection leaves deleteDataset.
deleteDataset_v1Next ==
  /\ cur.name = "deleteDataset_v1" /\ cur.step = "resource"
  /\ \E st \in Outcomes(cur.await) :
       /\ server' = Effect(cur.await, st)
       /\ IF st # "ok"
          THEN /\ calls' = Answered(cur.await, st)
               /\ ops' = SetOutcome(cur.op, "rejected")
               /\ cur' = Idle
               /\ drv' = [drv EXCEPT !.phase = "done"]
          ELSE /\ calls' = Append(Answered(cur.await, st),
                                  IF cur.idx < Len(remote.resources)
                                  THEN ResourceDeleteV1(remote, cur.op, cur.idx + 1)
                                  ELSE PackageDeleteV1(remote, cur.op))
               /\ cur' = [cur EXCEPT !.await = Len(calls) + 1, !.idx = @ + 1,
                                     !.step = IF cur.idx < Len(remote.resources)
                                              THEN "resource" ELSE "package"]
               /\ UNCHANGED <<ops, drv>>
  /\ UNCHANGED <<kind, source, local, remote>>

deleteDataset_v1Done ==
  /\ cur.name = "deleteDataset_v1" /\ cur.step = "package"
  /\ \E st \in Outcomes(cur.await) :
       /\ server' = Effect(cur.await, st)
       /\ calls' = Answered(cur.await, st)
       /\ ops' = SetOutcome(cur.op, IF st = "ok" THEN "resolved" ELSE "rejected")
  /\ cur' = Idle
  /\ drv' = [drv EXCEPT !.phase = "done"]
  /\ UNCHANGED <<kind, source, local, remote>>

----------------------------------------------------------------------------
\* Deletion, second variant (lines 450-481)

\* deleteDataset is entered: the loop over context.resourceIDs starts.
deleteDataset ==
  /\ kind = "deleteV2" /\ drv.phase = "start" /\ cur = Idle
  /\ ops' = Append(ops, [name |-> "deleteDataset", res |-> 0, outcome |-> "pending"])
  /\ cur' = [Idle EXCEPT !.name = "deleteDataset", !.op = Len(ops) + 1,
                         !.step = "loop", !.idx = 1]
  /\ drv' = [drv EXCEPT !.phase = "running"]
  /\ UNCHANGED <<kind, source, local, remote, server, calls>>

\* One iteration: deleteResource(context, resourceID) issues the request and
\* returns; `await` of its result resumes the loop at once.
deleteResource ==
  /\ cur.name = "deleteDataset" /\ cur.step = "loop"
  /\ cur.idx <= Len(remote.resourceIDs)
  /\ LET o == Len(ops) + 1
     IN /\ ops' = Append(ops, [name |-> "deleteResource", res |-> cur.idx,
                               outcome |-> "returned"])
        /\ calls' = Append(calls,
              [BlankReq EXCEPT !.op = o, !.to = remote.url.origin,
                               !.action = "resource_delete", !.method = "post",
                               !.id = remote.resourceIDs[cur.idx],
                               !.auth = remote.key])
        /\ cur' = [cur EXCEPT !.idx = @ + 1]
  /\ UNCHANGED <<kind, source, local, remote, server, drv>>

\* After the loop: package_delete is issued and awaited.
deleteDatasetPurge ==
  /\ cur.name = "deleteDataset" /\ cur.step = "loop"
  /\ cur.idx > Len(remote.resourceIDs)
  /\ calls' = Append(calls,
        [BlankReq EXCEPT !.op = cur.op, !.to = remote.url.origin,
                         !.action = "package_delete", !.method = "post",
                         !.id = remote.datasetID, !.auth = remote.key])
  /\ cur' = [cur EXCEPT !.step = "package", !.await = Len(calls) + 1]
  /\ UNCHANGED <<kind, source, local, remote, server, ops, drv>>

deleteDatasetDone ==
  /\ cur.name = "deleteDataset" /\ cur.step = "package"
  /\ \E st \in Outcomes(cur.await) :
       /\ server' = Effect(cur.await, st)
       /\ calls' = Answered(cur.await, st)
       /\ ops' = SetOutcome(cur.op, IF st = "ok" THEN "resolved" ELSE "rejected")
  /\ cur' = Idle
  /\ drv' = [drv EXCEPT !.phase = "done"]
  /\ UNCHANGED <<kind, source, local, remote>>

\* The response to a request nobody awaits (deleteResource, publishDataset):
\* it changes the catalog, and a failure reaches no caller.
Settle ==
  /\ ~Running
  /\ \E k \in DOMAIN calls :
       /\ calls[k].status = "inflight" /\ k # cur.await
       /\ \E st \in Outcomes(k) :
            /\ server' = Effect(k, st)
            /\ calls' = Answered(k, st)
  /\ UNCHANGED <<kind, source, local, remote, ops, cur, drv>>

----------------------------------------------------------------------------
\* The caller of a migration run (spec 4.3): the dataset first, then the
\* source resources in listing order, one method at a time, then publication.

\* Step 3: create unless the destination context holds a dataset.
Mode(context) == IF context.dataset.id = NoId THEN "create" ELSE "update"

\* Step 3: the returned dataset is stored into the destination context.
StoreDataset(context, result) == [context EXCEPT !.dataset = [id |-> result.id]]

\* Step 4: after a method on resource drv.i has settled, the table of a
\* tabular resource follows its file transfer; else the next resource is due.
Advance(d, method) ==
  IF method \in {"touchResource", "createResource"}
       /\ local.resources[d.i].datastore_active
  THEN [d EXCEPT !.stage = "table"]
  ELSE [d EXCEPT !.i = @ + 1, !.stage = "file"]

ResourcesLeft == drv.phase = "resources" /\ drv.i <= Len(local.resources)

\* ReturnsPromise with touchResource calling axios without `return`.
ReturnsPromise_NoReturn(method) ==
  method \notin {"publishDataset", "deleteResource", "touchResource"}

\* The methods that hand the promise of their request back to the caller;
\* publishDataset and deleteResource call axios and return nothing.
ReturnsPromise(method) == method \notin {"publishDataset", "deleteResource"}

----------------------------------------------------------------------------
\* Migration, second variant (lines 173-443)

\* The dataset object after touchDataset has prepared it (lines 323-330).
TouchedDataset_KeepsId(how, context, dataset) ==
  [(IF how = "create"
    THEN [dataset EXCEPT !.private = "true"]
    ELSE [dataset EXCEPT !.id = context.dataset.id])
   EXCEPT !.owner_org = context.organization.id]

TouchedDataset_NotPrivate(how, context, dataset) ==
  [(IF how = "create"
    THEN [dataset EXCEPT !.id = NoId]
    ELSE [dataset EXCEPT !.id = context.dataset.id])
   EXCEPT !.owner_org = context.organization.id]

TouchedDataset(how, context, dataset) ==
  [(IF how = "create"
    THEN [dataset EXCEPT !.id = NoId, !.private = "true"]
    ELSE [dataset EXCEPT !.id = context.dataset.id])
   EXCEPT !.owner_org = context.organization.id]

DatasetReq(o, context, action, dataset) ==
  [BlankReq EXCEPT !.op = o, !.to = context.url.origin, !.action = action,
                   !.method = "post", !.auth = context.key,
                   !.id = dataset.id, !.name = dataset.name,
                   !.owner_org = dataset.owner_org, !.private = dataset.private]

touchDataset ==
  /\ kind = "v2" /\ drv.phase = "dataset" /\ cur = Idle
  /\ LET how == Mode(remote)
         method == IF how = "create" THEN "package_create" ELSE "package_update"
         dataset == TouchedDataset(how, remote, local.dataset)
     IN /\ local' = [local EXCEPT !.dataset = dataset]
        /\ calls' = Append(calls, DatasetReq(Len(ops) + 1, remote, method, dataset))
        /\ ops' = Append(ops, [name |-> "touchDataset", res |-> 0, outcome |-> "pending"])
        /\ cur' = [Idle EXCEPT !.name = "touchDataset", !.op = Len(ops) + 1,
                               !.step = "post", !.await = Len(calls) + 1]
  /\ UNCHANGED <<kind, source, remote, server, drv>>

\* The id the catalog gives back for a dataset request it carried out.
DatasetResult(srv) == [id |-> srv.dataset.id]

touchDatasetDone ==
  /\ cur.name \in {"touchDataset", "createDataset"} /\ cur.step = "post"
  /\ \E st \in Outcomes(cur.await) :
       /\ server' = Effect(cur.await, st)
       /\ calls' = Answered(cur.await, st)
       /\ ops' = SetOutcome(cur.op, IF st = "ok" THEN "resolved" ELSE "rejected")
       /\ remote' = IF st = "ok" THEN StoreDataset(remote, DatasetResult(server'))
                                 ELSE remote
       /\ drv' = IF st = "ok" THEN [phase |-> "resources", i |-> 1, stage |-> "file"]
                              ELSE [drv EXCEPT !.phase = "done"]
  /\ cur' = Idle
  /\ UNCHANGED <<kind, source, local>>

\* this.remote.resources.filter(r => r.name === resource.name)
MatchByName(context, resource) ==
  SeqFilter(context.resources,
            {i \in DOMAIN context.resources : context.resources[i].name = resource.name})

touchResource ==
  /\ kind = "v2" /\ ResourcesLeft /\ drv.stage = "file" /\ cur = Idle
  /\ LET resource == local.resources[drv.i]
     IN /\ calls' = Append(calls,
              [BlankReq EXCEPT !.op = Len(ops) + 1, !.to = "file",
                               !.action = "fetch", !.method = "get",
                               !.url = resource.url])
        /\ cur' = [Idle EXCEPT !.name = "touchResource", !.op = Len(ops) + 1,
                               !.step = "fetch", !.await = Len(calls) + 1,
                               !.res = drv.i,
                               !.remoteResource = MatchByName(remote, resource)]
  /\ ops' = Append(ops, [name |-> "touchResource", res |-> drv.i, outcome |-> "pending"])
  /\ UNCHANGED <<kind, source, local, remote, server, drv>>

\* The form touchResource posts (lines 364-392): name, the fetched bytes as
\* upload, and package_id (create) or the matched resource's id (update).
ResourceForm(o, context, resource, remoteResource) ==
  IF Len(remoteResource) = 0
  THEN [BlankReq EXCEPT !.op = o, !.to = context.url.origin,
                        !.action = "resource_create", !.method = "post",
                        !.auth = context.key, !.name = resource.name,
                        !.upload = TRUE, !.package_id = context.dataset.id]
  ELSE [BlankReq EXCEPT !.op = o, !.to = context.url.origin,
                        !.action = "resource_update", !.method = "post",
                        !.auth = context.key, !.name = resource.name,
                        !.upload = TRUE, !.id = remoteResource[1].id]

\* The file has arrived (or not): the form is posted.
touchResourceFetched ==
  /\ cur.name = "touchResource" /\ cur.step = "fetch"
  /\ \E st \in Outcomes(cur.await) :
       IF Throws(st)
       THEN /\ calls' = Answered(cur.await, st)
            /\ ops' = SetOutcome(cur.op, "rejected")
            /\ cur' = Idle
            /\ drv' = Advance(drv, cur.name)
       ELSE /\ calls' = Append(Answered(cur.await, st),
                   ResourceForm(cur.op, remote, local.resources[cur.res],
                                cur.remoteResource))
            /\ IF ReturnsPromise(cur.name)
               THEN /\ cur' = [cur EXCEPT !.step = "post", !.await = Len(calls) + 1]
                    /\ UNCHANGED <<ops, drv>>
               ELSE /\ cur' = Idle
                    /\ ops' = SetOutcome(cur.op, "returned")
                    /\ drv' = Advance(drv, cur.name)
  /\ UNCHANGED <<kind, source, local, remote, server>>

\* The response to the last request of a resource method settles its promise.
ResourceDone ==
  /\ cur.name \in {"touchResource", "touchDatastore", "createResource", "createDatastore"}
  /\ cur.step = "post"
  /\ \E st \in Outcomes(cur.await) :
       /\ server' = Effect(cur.await, st)
       /\ calls' = Answered(cur.await, st)
       /\ ops' = SetOutcome(cur.op, IF st = "ok" THEN "resolved" ELSE "rejected")
  /\ cur' = Idle
  /\ drv' = Advance(drv, cur.name)
  /\ UNCHANGED <<kind, source, local, remote>>

publishDataset ==
  /\ kind \in {"v1", "v2"} /\ drv.phase = "resources" /\ cur = Idle
  /\ drv.i > Len(local.resources)
  /\ calls' = Append(calls,
        [BlankReq EXCEPT !.op = Len(ops) + 1, !.to = remote.url.origin,
                         !.action = "package_patch", !.method = "post",
                         !.auth = remote.key, !.id = remote.dataset.id,
                         !.private = "false"])
  /\ ops' = Append(ops, [name |-> "publishDataset", res |-> 0, outcome |-> "returned"])
  /\ drv' = [drv EXCEPT !.phase = "done"]
  /\ UNCHANGED <<kind, source, local, remote, server, cur>>

----------------------------------------------------------------------------
\* Tables (lines 276-309 and 404-443)

SearchReq(o, context, resourceID, limit) ==
  [BlankReq EXCEPT !.op = o, !.to = context.url.origin,
                   !.action = "datastore_search", !.method = "get",
                   !.resource_id = resourceID, !.limit = limit]

\* limit: total (line 294)
RecordsLimit(total) == total

\* delete field._id
WithoutId(record) == [key \in (DOMAIN record) \ {"_id"} |-> record[key]]

\* StripRecords without the loop that deletes `_id`.
StripRecords_Kept(records) == records

\* for (let field of records) { delete field._id }
StripRecords(records) == [i \in DOMAIN records |-> WithoutId(records[i])]

\* fields.filter(row => row.id !== '_id')
StripFields(fields) == SeqFilter(fields, {i \in DOMAIN fields : fields[i].id # "_id"})

\* The resource object after touchDatastore / createDatastore has taken its
\* id: `delete resource.id; delete resource.url; resource.package_id = ...`.
Detached(resource, context) ==
  [resource EXCEPT !.id = NoId, !.url = NoId, !.package_id = context.dataset.id]

\* IsCreatePath with the name match ignored.
IsCreatePath_Always(remoteResource) == TRUE

\* remoteResource.length === 0 (line 418)
IsCreatePath(remoteResource) == Len(remoteResource) = 0

\* The id touchDatastore sends as resource_id on the update path (lines 425, 432).
UpdateResourceId(resourceID, remoteResource) == resourceID

\* datastore_create with the resource descriptor (line 419).
TableCreateReq(o, context, resource, fields, records) ==
  [BlankReq EXCEPT !.op = o, !.to = context.url.origin,
                   !.action = "datastore_create", !.method = "post",
                   !.auth = context.key, !.hasResource = TRUE,
                   !.name = resource.name, !.package_id = resource.package_id,
                   !.id = resource.id, !.url = resource.url,
                   !.fields = fields, !.records = records]

\* TableFillReq sending the table as that of a new resource of the dataset.
TableFillReq_AsNew(o, context, rid, fields, records) ==
  [BlankReq EXCEPT !.op = o, !.to = context.url.origin,
                   !.action = "datastore_create", !.method = "post",
                   !.auth = context.key, !.hasResource = TRUE,
                   !.name = "a", !.package_id = context.dataset.id,
                   !.fields = fields, !.records = records]

\* datastore_create against a resource id (line 432).
TableFillReq(o, context, rid, fields, records) ==
  [BlankReq EXCEPT !.op = o, !.to = context.url.origin,
                   !.action = "datastore_create", !.method = "post",
                   !.auth = context.key, !.resource_id = rid,
                   !.fields = fields, !.records = records]

TableDeleteReq(o, context, rid) ==
  [BlankReq EXCEPT !.op = o, !.to = context.url.origin,
                   !.action = "datastore_delete", !.method = "post",
                   !.auth = context.key, !.resource_id = rid]

touchDatastore ==
  /\ kind = "v2" /\ ResourcesLeft /\ cur = Idle
  /\ local.resources[drv.i].datastore_active
  /\ LET resource == local.resources[drv.i]
         resourceID == resource.id
     IN /\ local' = [local EXCEPT !.resources[drv.i] = Detached(resource, remote)]
        /\ calls' = Append(calls, SearchReq(Len(ops) + 1, local, resourceID, 0))
        /\ cur' = [Idle EXCEPT !.name = "touchDatastore", !.op = Len(ops) + 1,
                               !.step = "total", !.await = Len(calls) + 1,
                               !.res = drv.i, !.resourceID = resourceID,
                               !.remoteResource = MatchByName(remote, resource)]
  /\ ops' = Append(ops, [name |-> "touchDatastore", res |-> drv.i, outcome |-> "pending"])
  /\ UNCHANGED <<kind, source, remote, server, drv>>

\* getDatastore: {fields, total} have arrived, the rows are asked for.
getDatastoreTotal ==
  /\ cur.name = "touchDatastore" /\ cur.step = "total"
  /\ \E st \in Outcomes(cur.await) :
       IF Throws(st)
       THEN /\ calls' = Answered(cur.await, st)
            /\ ops' = SetOutcome(cur.op, "rejected")
            /\ cur' = Idle
            /\ drv' = Advance(drv, cur.name)
       ELSE LET result == SearchResult(cur.resourceID, calls[cur.await].limit)
            IN /\ calls' = Append(Answered(cur.await, st),
                      SearchReq(cur.op, local, cur.resourceID, RecordsLimit(result.total)))
               /\ cur' = [cur EXCEPT !.step = "records", !.await = Len(calls) + 1,
                                     !.fields = result.fields, !.total = result.total]
               /\ UNCHANGED <<ops, drv>>
  /\ UNCHANGED <<kind, source, local, remote, server>>

\* getDatastore returns the stripped fields and records; touchDatastore
\* creates the table (create path) or first deletes the old one (update path).
getDatastoreRecords ==
  /\ cur.name = "touchDatastore" /\ cur.step = "records"
  /\ \E st \in Outcomes(cur.await) :
       IF Throws(st)
       THEN /\ calls' = Answered(cur.await, st)
            /\ ops' = SetOutcome(cur.op, "rejected")
            /\ cur' = Idle
            /\ drv' = Advance(drv, cur.name)
       ELSE LET result == SearchResult(cur.resourceID, calls[cur.await].limit)
                fields == StripFields(cur.fields)
                records == StripRecords(result.records)
            IN /\ calls' = Append(Answered(cur.await, st),
                      IF IsCreatePath(cur.remoteResource)
                      THEN TableCreateReq(cur.op, remote, local.resources[cur.res],
                                          fields, records)
                      ELSE TableDeleteReq(cur.op, remote,
                             UpdateResourceId(cur.resourceID, cur.remoteResource)))
               /\ cur' = [cur EXCEPT !.await = Len(calls) + 1,
                                     !.fields = fields, !.records = records,
                                     !.step = IF IsCreatePath(cur.remoteResource)
                                              THEN "post" ELSE "delete"]
               /\ UNCHANGED <<ops, drv>>
  /\ UNCHANGED <<kind, source, local, remote, server>>

\* The old table is gone (or the delete failed): the new one is created.
touchDatastoreDeleted ==
  /\ cur.name = "touchDatastore" /\ cur.step = "delete"
  /\ \E st \in Outcomes(cur.await) :
       /\ server' = Effect(cur.await, st)
       /\ IF Throws(st)
          THEN /\ calls' = Answered(cur.await, st)
               /\ ops' = SetOutcome(cur.op, "rejected")
               /\ cur' = Idle
               /\ drv' = Advance(drv, cur.name)
          ELSE /\ calls' = Append(Answered(cur.await, st),
                      TableFillReq(cur.op, remote,
                        UpdateResourceId(cur.resourceID, cur.remoteResource),
                        cur.fields, cur.records))
               /\ cur' = [cur EXCEPT !.step = "post", !.await = Len(calls) + 1]
               /\ UNCHANGED <<ops, drv>>
  /\ UNCHANGED <<kind, source, local, remote>>

----------------------------------------------------------------------------
\* Migration, first variant (lines 47-142)

\* The dataset object after createDataset has prepared it (lines 48-52).
CreatedDataset(context, dataset) ==
  [dataset EXCEPT !.private = "true", !.name = @ \o "-test",
                  !.owner_org = HardcodedOrg]

createDataset ==
  /\ kind = "v1" /\ drv.phase = "dataset" /\ cur = Idle
  /\ LET dataset == CreatedDataset(remote, local.dataset)
     IN /\ local' = [local EXCEPT !.dataset = dataset]
        /\ calls' = Append(calls,
              DatasetReq(Len(ops) + 1, remote,
                         buildEndpoint(remote, "package_create").action, dataset))
        /\ ops' = Append(ops, [name |-> "createDataset", res |-> 0, outcome |-> "pending"])
        /\ cur' = [Idle EXCEPT !.name = "createDataset", !.op = Len(ops) + 1,
                               !.step = "post", !.await = Len(calls) + 1]
  /\ UNCHANGED <<kind, source, remote, server, drv>>

\* The resource object createResource posts (lines 66-69).
CreatedResource(context, resource) ==
  [resource EXCEPT !.id = NoId, !.package_id = context.dataset.id,
                   !.url_type = "upload"]

createResource ==
  /\ kind = "v1" /\ ResourcesLeft /\ drv.stage = "file" /\ cur = Idle
  /\ LET resource == CreatedResource(remote, local.resources[drv.i])
     IN /\ local' = [local EXCEPT !.resources[drv.i] = resource]
        /\ calls' = Append(calls,
              [BlankReq EXCEPT !.op = Len(ops) + 1, !.to = remote.url.origin,
                               !.action = "resource_create", !.method = "post",
                               !.auth = remote.key, !.name = resource.name,
                               !.id = resource.id, !.url = resource.url,
                               !.package_id = resource.package_id])
        /\ cur' = [Idle EXCEPT !.name = "createResource", !.op = Len(ops) + 1,
                               !.step = "post", !.await = Len(calls) + 1,
                               !.res = drv.i]
  /\ ops' = Append(ops, [name |-> "createResource", res |-> drv.i, outcome |-> "pending"])
  /\ UNCHANGED <<kind, source, remote, server, drv>>

createDatastore ==
  /\ kind = "v1" /\ ResourcesLeft /\ cur = Idle
  /\ local.resources[drv.i].datastore_active
  /\ LET resource == local.resources[drv.i]
         resourceID == resource.id
     IN /\ local' = [local EXCEPT !.resources[drv.i] = Detached(resource, remote)]
        /\ calls' = Append(calls, SearchReq(Len(ops) + 1, local, resourceID, 0))
        /\ cur' = [Idle EXCEPT !.name = "createDatastore", !.op = Len(ops) + 1,
                               !.step = "total", !.await = Len(calls) + 1,
                               !.res = drv.i, !.resourceID = resourceID]
  /\ ops' = Append(ops, [name |-> "createDatastore", res |-> drv.i, outcome |-> "pending"])
  /\ UNCHANGED <<kind, source, remote, server, drv>>

createDatastoreTotal ==
  /\ cur.name = "createDatastore" /\ cur.step = "total"
  /\ \E st \in Outcomes(cur.await) :
       IF st # "ok"
       THEN /\ calls' = Answered(cur.await, st)
            /\ ops' = SetOutcome(cur.op, "rejected")
            /\ cur' = Idle
            /\ drv' = Advance(drv, cur.name)
       ELSE LET result == SearchResult(cur.resourceID, calls[cur.await].limit)
            IN /\ calls' = Append(Answered(cur.await, st),
                      SearchReq(cur.op, local, cur.resourceID, result.total))
               /\ cur' = [cur EXCEPT !.step = "records", !.await = Len(calls) + 1,
                                     !.fields = result.fields, !.total = result.total]
               /\ UNCHANGED <<ops, drv>>
  /\ UNCHANGED <<kind, source, local, remote, server>>

createDatastoreRecords ==
  /\ cur.name = "createDatastore" /\ cur.step = "records"
  /\ \E st \in Outcomes(cur.await) :
       IF st # "ok"
       THEN /\ calls' = Answered(cur.await, st)
            /\ ops' = SetOutcome(cur.op, "rejected")
            /\ cur' = Idle
            /\ drv' = Advance(drv, cur.name)
       ELSE LET result == SearchResult(cur.resourceID, calls[cur.await].limit)
                records == StripRecords(result.records)
                fields == SeqFilter(cur.fields,
                            {i \in DOMAIN cur.fields : cur.fields[i].id # "_id"})
            IN /\ calls' = Append(Answered(cur.await, st),
                      TableCreateReq(cur.op, remote, local.resources[cur.res],
                                     fields, records))
               /\ cur' = [cur EXCEPT !.step = "post", !.await = Len(calls) + 1,
                                     !.fields = fields, !.records = records]
               /\ UNCHANGED <<ops, drv>>
  /\ UNCHANGED <<kind, source, local, remote, server>>

----------------------------------------------------------------------------
\* Deletion runs

NoSource == [resources |-> <<>>, tables |-> <<>>]

NoLocal ==
  [url |-> [origin |-> "src"], key |-> "key-src",
   dataset |-> [id |-> NoId, name |-> "", owner_org |-> "", private |-> "unset"],
   resources |-> <<>>]

\* A context resolved for the dataset held by catalog srv.
ContextOf(srv) ==
  [url |-> [origin |-> "dst"], key |-> "key-dst",
   organization |-> [id |-> "org-dst"],
   dataset |-> [id |-> IF srv.dataset.exists THEN srv.dataset.id ELSE NoId],
   package |-> [id |-> IF srv.dataset.exists THEN srv.dataset.id ELSE NoId],
   datasetID |-> IF srv.dataset.exists THEN srv.dataset.id ELSE NoId,
   resources |-> [i \in DOMAIN srv.resources |->
                    [id |-> srv.resources[i].id, name |-> srv.resources[i].name,
                     datastore_active |-> srv.resources[i].table]],
   resourceIDs |-> [i \in DOMAIN srv.resources |-> srv.resources[i].id]]

\* The catalogs a deletion run can start from: a dataset with up to MaxRes
\* resources, each with or without a table.
DeleteServers ==
  {[dataset |-> [exists |-> TRUE, id |-> 1, private |-> p, owner_org |-> "org-dst"],
    resources |-> [i \in 1..n |-> [id |-> i, name |-> "a", table |-> t[i],
                                   rows |-> IF t[i] THEN 1 ELSE 0]],
    nextId |-> n + 2] :
     <<n, p, t>> \in {<<m, q, u>> \in (0..MaxRes) \X BOOLEAN \X [1..MaxRes -> BOOLEAN] :
                        \A i \in 1..MaxRes : i > m => ~u[i]}}

InitDelete ==
  /\ kind \in {"deleteV1", "deleteV2"}
  /\ source = NoSource
  /\ local = NoLocal
  /\ server \in DeleteServers
  /\ remote = ContextOf(server)
  /\ calls = <<>>
  /\ ops = <<>>
  /\ cur = Idle
  /\ drv = [phase |-> "start", i |-> 0, stage |-> "none"]

NextDelete ==
  \/ deleteDataset_v1
  \/ deleteDataset_v1Next
  \/ deleteDataset_v1Done
  \/ deleteDataset
  \/ deleteResource
  \/ deleteDatasetPurge
  \/ deleteDatasetDone
  \/ Settle

SpecDelete == InitDelete /\ [][NextDelete]_vars

----------------------------------------------------------------------------
\* Migration runs

\* The table the source catalog holds for its resource i: the field
\* descriptors and rows as datastore_search gives them, `_id` included.
SourceTable(i) ==
  [fields |-> <<[id |-> "_id", type |-> "int"], [id |-> "x", type |-> "text"]>>,
   records |-> [j \in 1..((2 * i) % 3) |-> [_id |-> j, x |-> 10 * i + j]]]

\* The source datasets: up to MaxRes resources, each a link or an upload,
\* with or without a table; names may repeat.
SourceShapes == [name : Names, url_type : UrlTypes, datastore_active : BOOLEAN]

\* Names are only ever compared with each other: the first one is fixed.
SourceLists ==
  UNION {{list \in [1..n -> SourceShapes] : list[1].name = "a"} : n \in 1..MaxRes}

SourceOf(list) ==
  [resources |-> [i \in DOMAIN list |->
                    [id |-> i, name |-> list[i].name, url |-> i,
                     url_type |-> list[i].url_type,
                     datastore_active |-> list[i].datastore_active]],
   tables |-> [i \in DOMAIN list |-> SourceTable(i)]]

\* getDataset on the source (lines 214-270): the dataset and the resource
\* objects the client holds; url_type is not among the fields it keeps.
LocalOf(src, variant) ==
  [url |-> [origin |-> "src"], key |-> "key-src",
   dataset |-> [id |-> IF variant = "v1" THEN NoId ELSE 1, name |-> "ds",
                owner_org |-> "org-src", private |-> "unset"],
   resources |-> [i \in DOMAIN src.resources |->
                    [id |-> src.resources[i].id, name |-> src.resources[i].name,
                     url |-> src.resources[i].url,
                     datastore_active |-> src.resources[i].datastore_active,
                     package_id |-> NoId, url_type |-> "unset"]]]

FreshServer ==
  [dataset |-> [exists |-> FALSE, id |-> NoId, private |-> TRUE, owner_org |-> ""],
   resources |-> <<>>, nextId |-> 2 * MaxRes + 1]

\* The destination as an earlier run of the same migration left it: the
\* dataset, private, and one resource for each source name.  The catalog
\* assigns the ids: its own (sameIds false) or, the destination being a copy
\* of the source catalog, the source's.
MigratedServer(src, sameIds) ==
  LET first == SeqFilter([i \in DOMAIN src.resources |-> i],
                 {i \in DOMAIN src.resources :
                    \A j \in 1..(i - 1) : src.resources[j].name # src.resources[i].name})
  IN [dataset |-> [exists |-> TRUE, id |-> 2, private |-> TRUE, owner_org |-> "org-dst"],
      resources |-> [k \in DOMAIN first |->
                       [id |-> IF sameIds THEN first[k] ELSE MaxRes + first[k],
                        name |-> src.resources[first[k]].name,
                        table |-> src.resources[first[k]].datastore_active,
                        rows |-> IF src.resources[first[k]].datastore_active
                                 THEN Len(src.tables[first[k]].records) ELSE 0]],
      nextId |-> 2 * MaxRes + 1]

InitMigrate ==
  /\ kind \in {"v1", "v2"}
  /\ \E list \in SourceLists : source = SourceOf(list)
  /\ local = LocalOf(source, kind)
  /\ server \in {FreshServer}
                 \cup (IF kind = "v2"
                       THEN {MigratedServer(source, same) : same \in BOOLEAN}
                       ELSE {})
  /\ remote = ContextOf(server)
  /\ calls = <<>>
  /\ ops = <<>>
  /\ cur = Idle
  /\ drv = [phase |-> "dataset", i |-> 0, stage |-> "none"]

NextMigrate ==
  \/ touchDataset
  \/ touchDatasetDone
  \/ touchResource
  \/ touchResourceFetched
  \/ touchDatastore
  \/ getDatastoreTotal
  \/ getDatastoreRecords
  \/ touchDatastoreDeleted
  \/ createDataset
  \/ createResource
  \/ createDatastore
  \/ createDatastoreTotal
  \/ createDatastoreRecords
  \/ ResourceDone
  \/ publishDataset
  \/ Settle

SpecMigrate == InitMigrate /\ [][NextMigrate]_vars

Init == InitDelete \/ InitMigrate

Next == NextDelete \/ NextMigrate

Spec == Init /\ [][Next]_vars

----------------------------------------------------------------------------
\* Claims on deletion

DeleteList == IF kind = "deleteV1" THEN [i \in DOMAIN remote.resources |-> remote.resources[i].id]
                                   ELSE remote.resourceIDs

IsDelete(k, rid) == calls[k].action = "resource_delete" /\ calls[k].id = rid

\* C1: whenever package_delete has been issued, a resource_delete for every
\* resource of the context's list was issued before it and has completed
\* successfully.
C1_PurgeAfterResources ==
  \A k \in DOMAIN calls :
    calls[k].action = "package_delete" =>
      \A i \in DOMAIN DeleteList :
        \E j \in 1..(k - 1) : IsDelete(j, DeleteList[i]) /\ calls[j].status = "ok"

\* C2: once the resource_delete of one resource has failed, no request for a
\* later resource and no package_delete follows it, and deleteDataset ends
\* rejected.
C2_FailureAborts ==
  \A k \in DOMAIN calls :
    (calls[k].action = "resource_delete" /\ Failed(calls[k])) =>
      /\ \A j \in DOMAIN calls :
           j > k => calls[j].action \notin {"resource_delete", "package_delete"}
      /\ drv.phase = "done" => ops[1].outcome = "rejected"

\* C11: every resource_delete for a resource that the context lists with an
\* active table comes after a completed datastore_delete for that resource,
\* and a resource_delete is issued only once every request before it has been
\* answered, in the order of the list.
C11_TableDeletedFirst ==
  \A k \in DOMAIN calls :
    calls[k].action = "resource_delete" =>
      /\ \A i \in DOMAIN remote.resources :
           (remote.resources[i].id = calls[k].id /\ remote.resources[i].datastore_active) =>
             \E j \in 1..(k - 1) : /\ calls[j].action = "datastore_delete"
                                   /\ calls[j].resource_id = calls[k].id
                                   /\ calls[j].status = "ok"
      /\ (calls[k].status = "inflight" =>
            \A j \in 1..(k - 1) : calls[j].status # "inflight")
      /\ calls[k].id = DeleteList[Cardinality({j \in 1..k : calls[j].action = "resource_delete"})]

----------------------------------------------------------------------------
\* Claims on migration

OpOf(k) == ops[calls[k].op]

\* The destination writes of method call o, in the order they were issued.
WritesOf(o) ==
  SeqFilter(calls, {k \in DOMAIN calls :
                     calls[k].op = o /\ calls[k].to = "dst" /\ IsWrite(calls[k])})

\* The destination resources the run's list holds under the name of source
\* resource i.
Matched(i) == MatchByName(remote, source.resources[i])

OnUpdatePath(o) == ops[o].name = "touchDatastore" /\ Len(Matched(ops[o].res)) > 0

InitialIds == {remote.resources[i].id : i \in DOMAIN remote.resources}

\* The run starts from the destination an earlier run has left: the dataset
\* is there and every source resource has its namesake.
SecondRun ==
  /\ kind = "v2" /\ remote.datasetID # NoId
  /\ \A i \in DOMAIN source.resources : Len(Matched(i)) > 0

WritesExisting(r) ==
  CASE r.action \in {"package_update", "package_patch"} -> r.id = remote.datasetID
    [] r.action = "resource_update" -> r.id \in InitialIds
    [] r.action \in {"datastore_delete", "datastore_create"} ->
         ~r.hasResource /\ r.resource_id \in InitialIds
    [] OTHER -> FALSE

\* C3: a second run leaves the destination's dataset id and resource ids as
\* they were, and every write of it goes to an id the destination had.
C3_SecondRunSameIds ==
  SecondRun =>
    /\ server.dataset.exists /\ server.dataset.id = remote.datasetID
    /\ ServerIds(server) = InitialIds
    /\ \A k \in DOMAIN calls :
         (calls[k].to = "dst" /\ IsWrite(calls[k])) => WritesExisting(calls[k])

\* C4: touchResource and touchDatastore leave at most one resource per name
\* on the destination.
C4_OneResourcePerName ==
  kind = "v2" =>
    \A i, j \in DOMAIN server.resources :
      server.resources[i].name = server.resources[j].name => i = j

\* C5: the destination writes of a touchDatastore call on the update path
\* are datastore_delete then datastore_create, the create only after the
\* delete has succeeded, and both once the call has resolved.
C5_DeleteThenCreate ==
  \A o \in DOMAIN ops :
    OnUpdatePath(o) =>
      LET w == WritesOf(o)
      IN /\ Len(w) <= 2
         /\ Len(w) >= 1 => w[1].action = "datastore_delete"
         /\ Len(w) = 2 => w[2].action = "datastore_create" /\ w[1].status = "ok"
         /\ ops[o].outcome = "resolved" => Len(w) = 2 /\ w[2].status = "ok"

C5_Witness ==
  \E o \in DOMAIN ops :
    /\ OnUpdatePath(o) /\ ops[o].outcome = "resolved"
    /\ Len(WritesOf(o)) = 2

\* C6: on the update path every datastore_delete and datastore_create of
\* touchDatastore carries the id of the destination resource matched by name.
C6_TargetsMatchedResource ==
  \A k \in DOMAIN calls :
    (OnUpdatePath(calls[k].op)
       /\ calls[k].action \in {"datastore_delete", "datastore_create"}) =>
      calls[k].resource_id = Matched(OpOf(k).res)[1].id

FieldsOf(i) ==
  {source.tables[i].fields[j] : j \in DOMAIN source.tables[i].fields}

\* C7: the records handed to datastore_create are the rows of the source
\* table, as many as its row count, and neither a field descriptor nor a
\* record of the payload has `_id`.
C7_RowsWithoutId ==
  \A k \in DOMAIN calls :
    calls[k].action = "datastore_create" =>
      LET rows == source.tables[OpOf(k).res].records
          sent == calls[k].records
      IN /\ Len(sent) = Len(rows)
         /\ \A i \in DOMAIN sent :
              /\ "_id" \notin DOMAIN sent[i]
              /\ DOMAIN sent[i] = (DOMAIN rows[i]) \ {"_id"}
              /\ \A key \in DOMAIN sent[i] : sent[i][key] = rows[i][key]
         /\ \A i \in DOMAIN calls[k].fields : calls[k].fields[i].id # "_id"
         /\ {calls[k].fields[i] : i \in DOMAIN calls[k].fields}
              = {f \in FieldsOf(OpOf(k).res) : f.id # "_id"}

C7_Witness ==
  \E k \in DOMAIN calls :
    /\ calls[k].action = "datastore_create" /\ calls[k].status = "ok"
    /\ Len(calls[k].records) = 2
    /\ Len(source.tables[OpOf(k).res].fields) > Len(calls[k].fields)

TransferMethods == {"touchResource", "touchDatastore"}

\* C8: when publishDataset issues package_patch with private = false, every
\* touchResource and touchDatastore call of the run has settled and none of
\* their requests is in flight.
C8_PublishAfterTransfers ==
  \A k \in DOMAIN calls :
    (calls[k].action = "package_patch" /\ calls[k].private = "false") =>
      /\ \A o \in DOMAIN ops :
           ops[o].name \in TransferMethods =>
             o < calls[k].op /\ ops[o].outcome \in {"resolved", "rejected"}
      /\ \A j \in DOMAIN calls :
           ops[calls[j].op].name \in TransferMethods =>
             j < k /\ calls[j].status # "inflight"

C8_Witness ==
  \E k \in DOMAIN calls :
    /\ calls[k].action = "package_patch" /\ calls[k].private = "false"
    /\ \E o, p \in DOMAIN ops :
         /\ ops[o].name = "touchResource" /\ ops[o].outcome = "resolved"
         /\ ops[p].name = "touchDatastore" /\ ops[p].outcome = "resolved"

\* C9: migrating a link resource fetches no file and uploads no blob, and
\* the resource written carries the source resource's url.
C9_LinkForwarded ==
  \A k \in DOMAIN calls :
    (OpOf(k).name \in {"touchResource", "createResource"}
       /\ source.resources[OpOf(k).res].url_type = "link") =>
      /\ calls[k].action # "fetch"
      /\ ~calls[k].upload
      /\ IsWrite(calls[k]) => calls[k].url = source.resources[OpOf(k).res].url

\* C10: every package_create and package_update carries the id of the
\* destination context's organization as owner_org.
C10_OwnerIsDestinationOrg ==
  \A k \in DOMAIN calls :
    calls[k].action \in {"package_create", "package_update"} =>
      calls[k].owner_org = remote.organization.id


\* C12: every request that fails inside a method makes the promise that the
\* method returned to its caller reject.
C12_FailureRejects ==
  \A k \in DOMAIN calls :
    Failed(calls[k]) => OpOf(k).outcome = "rejected"


Published == \E k \in DOMAIN calls : calls[k].action = "package_patch" /\ calls[k].status = "ok"

\* C13: only publishDataset issues a request that sets private to false, and
\* the destination dataset is private for as long as no request of
\* publishDataset has been carried out, whatever touchDataset, touchResource
\* and touchDatastore (createDataset, createResource, createDatastore) did.
C13_PrivateUntilPublished ==
  /\ \A k \in DOMAIN calls : calls[k].private = "false" => OpOf(k).name = "publishDataset"
  /\ (server.dataset.exists /\ ~Published) => server.dataset.private

\* A dataset created by the run, with a resource transferred after it and no
\* publication yet.
C13_Witness ==
  /\ \E k \in DOMAIN calls : /\ calls[k].action = "package_create" /\ calls[k].status = "ok"
                             /\ calls[k].private = "true"
  /\ \E o \in DOMAIN ops : /\ ops[o].name \in {"touchResource", "touchDatastore"}
                           /\ ops[o].outcome = "resolved"
  /\ ~Published /\ server.dataset.private


KeyOf(origin) == IF origin = remote.url.origin THEN remote.key
                 ELSE IF origin = local.url.origin THEN local.key ELSE "none"

\* C14: every write request carries as Authorization the key of the context
\* whose origin it is addressed to.
C14_WritesAuthorized ==
  \A k \in DOMAIN calls :
    IsWrite(calls[k]) => /\ calls[k].to \in {remote.url.origin, local.url.origin}
                         /\ calls[k].auth = KeyOf(calls[k].to)


\* C15: touchDataset issues package_create, with no id and private set,
\* exactly when it is called in mode 'create' (the destination context held
\* no dataset); otherwise it issues package_update with the id of the
\* dataset the context held.
C15_CreateOrUpdateDataset ==
  \A k \in DOMAIN calls :
    OpOf(k).name = "touchDataset" =>
      IF remote.datasetID = NoId
      THEN /\ calls[k].action = "package_create"
           /\ calls[k].id = NoId
           /\ calls[k].private = "true"
      ELSE /\ calls[k].action = "package_update"
           /\ calls[k].id = remote.datasetID

\* A source dataset that came with an id has been created at the destination.
C15_Witness ==
  /\ LocalOf(source, kind).dataset.id # NoId
  /\ \E k \in DOMAIN calls : /\ OpOf(k).name = "touchDataset"
                             /\ calls[k].action = "package_create"
                             /\ calls[k].status = "ok"


\* The destination resources that have the name of source resource i.
SameName(i) ==
  {j \in DOMAIN server.resources : server.resources[j].name = source.resources[i].name}

C17_FailureStaysWithResource ==
  /\ \A k \in DOMAIN calls :
       (/\ OpOf(k).name = "touchDatastore"
        /\ calls[k].action \in {"datastore_search", "datastore_delete"}
        /\ Failed(calls[k])) =>
          /\ OpOf(k).outcome = "rejected"
          /\ \A j \in DOMAIN calls :
               calls[j].op = calls[k].op => calls[j].action # "datastore_create"
  /\ \A i \in DOMAIN local.resources :
       (kind = "v2" /\ \A o \in DOMAIN ops : ~(ops[o].name = "touchDatastore" /\ ops[o].res = i)) =>
          local.resources[i] = LocalOf(source, kind).resources[i]
  /\ \A k \in DOMAIN calls :
       OpOf(k).name \in {"touchResource", "touchDatastore"} =>
         LET resource == source.resources[OpOf(k).res]
         IN CASE calls[k].action = "fetch" -> calls[k].url = resource.url
              [] calls[k].action \in {"datastore_search", "datastore_delete"} ->
                   calls[k].resource_id = resource.id
              [] calls[k].action = "datastore_create" ->
                   /\ calls[k].fields = StripFields(source.tables[resource.id].fields)
                   /\ calls[k].records = StripRecords(source.tables[resource.id].records)
                   /\ IF calls[k].hasResource
                      THEN /\ calls[k].name = resource.name
                           /\ calls[k].package_id = remote.dataset.id
                      ELSE calls[k].resource_id = resource.id
              [] OTHER -> calls[k].name = resource.name

\* The table transfer of the first resource was rejected by a failed search
\* or delete, and the table of a later resource has been transferred.
C17_Witness ==
  \E k \in DOMAIN calls :
    /\ OpOf(k).name = "touchDatastore"
    /\ calls[k].action \in {"datastore_search", "datastore_delete"}
    /\ Failed(calls[k])
    /\ \E j \in DOMAIN calls : /\ j > k /\ OpOf(j).name = "touchDatastore"
                               /\ OpOf(j).res > OpOf(k).res
                               /\ calls[j].action = "datastore_create"
                               /\ calls[j].status = "ok"


InFlight == {k \in DOMAIN calls : calls[k].status = "inflight"}

\* C18: at most one request is in flight at any moment, and a method that has
\* handed control back to its caller has no request in flight.
C18_OneInFlight ==
  /\ Cardinality(InFlight) <= 1
  /\ \A k \in InFlight : OpOf(k).outcome = "pending"


\* C19: touchDataset, touchResource and touchDatastore leave the source
\* context as it was resolved: the source dataset and every source resource
\* keep the fields they were read with.
C19_SourceUnchanged ==
  kind = "v2" => local = LocalOf(source, kind)


\* The destination resources the context listed with a table.
HadTable == {remote.resources[i].id : i \in {j \in DOMAIN remote.resources :
                                               remote.resources[j].datastore_active}}

\* C20 as stated: once no call is in progress, every destination resource
\* that had a table before still has one.
C20_TableKept ==
  cur = Idle => HadTable \subseteq TabularIds(server)

\* C20: a destination resource that had a table is without one only when a
\* touchDatastore call's datastore_delete for it succeeded and no
\* datastore_create of that call has succeeded: a call that resolves leaves
\* the new table, a call that fails at a datastore_search or at the
\* datastore_delete leaves the previous one.
C20_TableLostOnlyAfterDelete ==
  \A rid \in HadTable \ TabularIds(server) :
    \E k \in DOMAIN calls :
      /\ OpOf(k).name = "touchDatastore"
      /\ calls[k].action = "datastore_delete" /\ calls[k].resource_id = rid
      /\ calls[k].status = "ok"
      /\ \A j \in DOMAIN calls :
           (calls[j].op = calls[k].op /\ calls[j].action = "datastore_create") =>
             calls[j].status # "ok"

\* The old table was deleted and the creation of the new one failed.
C20_Witness ==
  /\ cur = Idle /\ HadTable \ TabularIds(server) # {}
  /\ \E k \in DOMAIN calls : /\ OpOf(k).name = "touchDatastore"
                             /\ calls[k].action = "datastore_create"
                             /\ Failed(calls[k])

====
